---- MODULE Spec2Model ----
(***************************************************************************)
(* Model of the V4L2 discovery path of vision.backend:                     *)
(*   _ioctl.py   request-code construction (IOC) and the wire records      *)
(*   _device.py  the three enumerators, DeviceInfo.from_file and Device    *)
(*                                                                         *)
(* 32-bit words that are used as bit patterns (request codes, capability   *)
(* sets, pixel-format codes) are modelled as the set of their set bit      *)
(* positions (a subset of 0..31): `a | b` is set union, `a << k` adds k to *)
(* every position, ctypes.c_int32 keeps the positions below 32, and the    *)
(* IntFlag test `a in b` is the subset test.                               *)
(***************************************************************************)
EXTENDS Integers, Sequences, FiniteSets, TLC

None == "None"

\* an optional record: <<>> for Python's None, <<r>> for the object r
Nothing == <<>>
Some(r) == <<r>>

(* ---------------------------------------------------------------------- *)
(* Bit arithmetic                                                          *)
(* ---------------------------------------------------------------------- *)

RECURSIVE Pow2(_)
Pow2(k) == IF k = 0 THEN 1 ELSE 2 * Pow2(k - 1)

\* the bit pattern of a non-negative Python int below 2^31
Bits(n) == {i \in 0..30 : (n \div Pow2(i)) % 2 = 1}

\* a << k
Shl(w, k) == {i + k : i \in w}

\* ctypes.c_int32(x).value, as a bit pattern: truncation to 32 bits
c_int32(w) == {i \in w : i < 32}

\* a | b
BitOr(a, b) == a \cup b

RECURSIVE FieldValue(_, _, _)
\* the unsigned value of the width-bit field of word w that starts at bit shift
FieldValue(w, shift, width) ==
    IF width = 0 THEN 0
    ELSE (IF shift \in w THEN 1 ELSE 0) + 2 * FieldValue(w, shift + 1, width - 1)

\* ord() for the characters the model uses
Ord == [V |-> 86, Y |-> 89, U |-> 85, M |-> 77, J |-> 74, P |-> 80, G |-> 71,
        X |-> 88, NUL |-> 0, SP |-> 32, A |-> 65, DEL |-> 127]

(* ---------------------------------------------------------------------- *)
(* _ioctl.py: request codes                                                *)
(* ---------------------------------------------------------------------- *)

IOCDirection == [NONE |-> 0, WRITE |-> 1, READ |-> 2]

NRBITS == 8
TYPEBITS == 8
SIZEBITS == 14
DIRBITS == 2

NRSHIFT == 0
TYPESHIFT == NRSHIFT + NRBITS
SIZESHIFT == TYPESHIFT + TYPEBITS
DIRSHIFT == SIZESHIFT + SIZEBITS

\* ctypes.sizeof of the payload records (LP64 layout of the _fields_ lists):
\*   v4l2_capability  16 + 32 + 32 + 3*4 + 3*4
\*   v4l2_fmtdesc     3*4 + 32 + 2*4 + 3*4
\*   v4l2_frmsizeenum 3*4 + 24 (union) + 2*4
\*   v4l2_frmivalenum 5*4 + 24 (union) + 2*4
\*   v4l2_format      4 + 4 (padding) + 200 (union, 8-aligned by v4l2_window)
\*   v4l2_streamparm  4 + 40 (union) + 200
sizeof == [v4l2_capability |-> 104, v4l2_fmtdesc |-> 64,
           v4l2_frmsizeenum |-> 44, v4l2_frmivalenum |-> 52,
           v4l2_format |-> 208, v4l2_streamparm |-> 244]

\* a mutation of IOC: the fields laid out dir | type | number | size
IOC_SizeLow(direction, number, size) ==
    BitOr(BitOr(c_int32(Shl(Bits(direction), 30)),
                c_int32(Shl(Bits(Ord.V), 22))),
          BitOr(c_int32(Shl(Bits(number), 14)),
                c_int32(Shl(Bits(size), 0))))

\* a mutation of IOC: the request number is not masked into its own field
\* but shifted under the type tag, so that numbers share bits with the tag
IOC_NrOverType(direction, number, size) ==
    BitOr(BitOr(c_int32(Shl(Bits(direction), DIRSHIFT)),
                c_int32(Shl(Bits(Ord.V), TYPESHIFT))),
          BitOr(c_int32(Shl(Bits(number), TYPESHIFT)),
                c_int32(Shl(Bits(size), SIZESHIFT))))

\* IOC.__init__: self.request, size being ctypes.sizeof(size)
IOC(direction, number, size) ==
    LET magic == Ord.V
    IN  BitOr(BitOr(c_int32(Shl(Bits(direction), DIRSHIFT)),
                    c_int32(Shl(Bits(magic), TYPESHIFT))),
              BitOr(c_int32(Shl(Bits(number), NRSHIFT)),
                    c_int32(Shl(Bits(size), SIZESHIFT))))

IOR(number, size) == IOC(IOCDirection.READ, number, size)
IOW(number, size) == IOC(IOCDirection.WRITE, number, size)
\* IOCDirection.WRITE | IOCDirection.READ
IOWR(number, size) ==
    IOC(FieldValue(BitOr(Bits(IOCDirection.WRITE), Bits(IOCDirection.READ)), 0, DIRBITS),
        number, size)

\* the module-level request objects of _ioctl.py, in definition order
VidiocDefs == <<
    [name |-> "vidioc_querycap",            dir |-> "IOR",  number |-> 0,  record |-> "v4l2_capability"],
    [name |-> "vidioc_enum_fmt",            dir |-> "IOWR", number |-> 2,  record |-> "v4l2_fmtdesc"],
    [name |-> "vidioc_enum_framesizes",     dir |-> "IOWR", number |-> 74, record |-> "v4l2_frmsizeenum"],
    [name |-> "vidioc_enum_frameintervals", dir |-> "IOWR", number |-> 75, record |-> "v4l2_frmivalenum"],
    [name |-> "vidioc_g_fmt",               dir |-> "IOWR", number |-> 4,  record |-> "v4l2_format"],
    [name |-> "vidioc_s_fmt",               dir |-> "IOWR", number |-> 5,  record |-> "v4l2_format"],
    [name |-> "vidioc_try_fmt",             dir |-> "IOWR", number |-> 64, record |-> "v4l2_format"],
    [name |-> "vidioc_g_param",             dir |-> "IOWR", number |-> 21, record |-> "v4l2_streamparm"],
    [name |-> "vidioc_s_param",             dir |-> "IOWR", number |-> 22, record |-> "v4l2_streamparm"] >>

Vidioc(d) == IF d.dir = "IOR" THEN IOR(d.number, sizeof[d.record])
             ELSE IOWR(d.number, sizeof[d.record])

vidioc_querycap == Vidioc(VidiocDefs[1])
vidioc_enum_fmt == Vidioc(VidiocDefs[2])
vidioc_enum_framesizes == Vidioc(VidiocDefs[3])
vidioc_enum_frameintervals == Vidioc(VidiocDefs[4])

(* ---------------------------------------------------------------------- *)
(* _device.py: identifier tables                                           *)
(* ---------------------------------------------------------------------- *)

\* class Capabilities(IntFlag): each flag as its bit pattern
Capabilities == [
    VIDEO_CAPTURE |-> Bits(1),            VIDEO_OUTPUT |-> Bits(2),
    VIDEO_OVERLAY |-> Bits(4),            VBI_CAPTURE |-> Bits(16),
    VBI_OUTPUT |-> Bits(32),              SLICED_VBI_CAPTURE |-> Bits(64),
    SLICED_VBI_OUTPUT |-> Bits(128),      RDS_CAPTURE |-> Bits(256),
    VIDEO_OUTPUT_OVERLAY |-> Bits(512),   HW_FREQ_SEEK |-> Bits(1024),
    RDS_OUTPUT |-> Bits(2048),            VIDEO_CAPTURE_MPLANE |-> Bits(4096),
    VIDEO_OUTPUT_MPLANE |-> Bits(8192),   VIDEO_M2M_MPLANE |-> Bits(16384),
    VIDEO_M2M |-> Bits(32768),            TUNER |-> Bits(65536),
    AUDIO |-> Bits(131072),               RADIO |-> Bits(262144),
    MODULATOR |-> Bits(524288),           SDR_CAPTURE |-> Bits(1048576),
    EXT_PIX_FORMAT |-> Bits(2097152),     SDR_OUTPUT |-> Bits(4194304),
    META_CAPTURE |-> Bits(8388608),       READWRITE |-> Bits(16777216),
    ASYNCIO |-> Bits(33554432),           STREAMING |-> Bits(67108864),
    META_OUTPUT |-> Bits(134217728),      TOUCH |-> Bits(268435456),
    DEVICE_CAPS |-> {31} ]

\* class BufferType(IntEnum); a buffer type is named by its member name
BufferType == [
    VIDEO_CAPTURE |-> 1, VIDEO_OUTPUT |-> 2, VIDEO_OVERLAY |-> 3,
    VBI_CAPTURE |-> 4, VBI_OUTPUT |-> 5, SLICED_VBI_CAPTURE |-> 6,
    SLICED_VBI_OUTPUT |-> 7, VIDEO_OUTPUT_OVERLAY |-> 8,
    VIDEO_CAPTURE_MPLANE |-> 9, VIDEO_OUTPUT_MPLANE |-> 10,
    SDR_CAPTURE |-> 11, SDR_OUTPUT |-> 12, META_CAPTURE |-> 13,
    META_OUTPUT |-> 14 ]

v4l2_fourcc(a, b, c, d) ==
    BitOr(BitOr(Bits(Ord[a]), Shl(Bits(Ord[b]), 8)),
          BitOr(Shl(Bits(Ord[c]), 16), Shl(Bits(Ord[d]), 24)))

\* a mutation of v4l2_fourcc_be: the marker put one bit too low, `1 << 30`
v4l2_fourcc_be_Bit30(a, b, c, d) == BitOr(v4l2_fourcc(a, b, c, d), Shl(Bits(1), 30))

v4l2_fourcc_be(a, b, c, d) == BitOr(v4l2_fourcc(a, b, c, d), Shl(Bits(1), 31))

\* class PixelFormat(IntEnum): the members the modelled devices report
PixelFormat == [ YUYV |-> v4l2_fourcc("Y", "U", "Y", "V"),
                 MJPEG |-> v4l2_fourcc("M", "J", "P", "G") ]

\* PixelFormat(value) succeeds
IsPixelFormat(value) == \E n \in DOMAIN PixelFormat : PixelFormat[n] = value

\* a code that is no member of PixelFormat
UnknownFourcc == v4l2_fourcc("X", "X", "X", "X")

\* class FrameSizeType(IntEnum) / class FrameIntervalType(IntEnum)
FrameSizeType == [DISCRETE |-> 1, CONTINUOUS |-> 2, STEPWISE |-> 3]
FrameIntervalType == [DISCRETE |-> 1, CONTINUOUS |-> 2, STEPWISE |-> 3]

IsFrameSizeType(value) == \E n \in DOMAIN FrameSizeType : FrameSizeType[n] = value
IsFrameIntervalType(value) ==
    \E n \in DOMAIN FrameIntervalType : FrameIntervalType[n] = value

RECURSIVE GCD(_, _)
GCD(a, b) == IF b = 0 THEN a ELSE GCD(b, a % b)

\* fractions.Fraction(n, d) for d > 0: the pair in lowest terms
Fraction(n, d) == [numerator |-> n \div GCD(n, d), denominator |-> d \div GCD(n, d)]

(* ---------------------------------------------------------------------- *)
(* Wire records and the typed values decoded from them                     *)
(* ---------------------------------------------------------------------- *)

\* v4l2_fmtdesc(), index and type set
v4l2_fmtdesc(index, type) ==
    [index |-> index, type |-> type, flags |-> 0, pixelformat |-> {}, mbus_code |-> 0]

\* v4l2_frmsizeenum(), index and pixel_format set; m is the union, read as
\* six 32-bit words: discrete = (m[1], m[2]), stepwise = (m[1], ..., m[6])
v4l2_frmsizeenum(index, pixel_format) ==
    [index |-> index, pixel_format |-> pixel_format, type |-> 0,
     m |-> <<0, 0, 0, 0, 0, 0>>]

\* v4l2_frmivalenum(), index, pixel_format, width and height set; m is the
\* union: discrete = m[1]/m[2], stepwise = m[1]/m[2], m[3]/m[4], m[5]/m[6]
v4l2_frmivalenum(index, pixel_format, width, height) ==
    [index |-> index, pixel_format |-> pixel_format, width |-> width,
     height |-> height, type |-> 0, m |-> <<0, 0, 0, 0, 0, 0>>]

ImageFormat(type, flags, pixel_format, mbus_code) ==
    [cls |-> "ImageFormat", type |-> type, flags |-> flags,
     pixel_format |-> pixel_format, mbus_code |-> mbus_code]

DiscreteFrameSize(pixel_format, width, height) ==
    [cls |-> "DiscreteFrameSize", pixel_format |-> pixel_format,
     width |-> width, height |-> height]

StepwiseFrameSize(pixel_format, min_width, max_width, step_width, min_height, max_height, step_height) ==
    [cls |-> "StepwiseFrameSize", pixel_format |-> pixel_format,
     min_width |-> min_width, max_width |-> max_width, step_width |-> step_width,
     min_height |-> min_height, max_height |-> max_height,
     step_height |-> step_height]

DiscreteFrameInterval(pixel_format, width, height, fraction) ==
    [cls |-> "DiscreteFrameInterval", pixel_format |-> pixel_format,
     width |-> width, height |-> height, fraction |-> fraction]

\* a mutation of DiscreteFrameInterval_float: numerator / denominator
DiscreteFrameInterval_float_Inverted(self) ==
    [num |-> self.fraction.numerator, den |-> self.fraction.denominator]

\* DiscreteFrameInterval.__float__: the quotient denominator / numerator of the
\* stored fraction, kept as the exact pair num / den
DiscreteFrameInterval_float(self) ==
    [num |-> self.fraction.denominator, den |-> self.fraction.numerator]

StepwiseFrameInterval(pixel_format, width, height, min, max, step) ==
    [cls |-> "StepwiseFrameInterval", pixel_format |-> pixel_format,
     width |-> width, height |-> height, min |-> min, max |-> max, step |-> step]

(* ---------------------------------------------------------------------- *)
(* The transport: IOC.__call__ -> fcntl.ioctl                              *)
(* ---------------------------------------------------------------------- *)

\* Bounds of the model
MaxOk == 3          \* successful enumeration replies per snapshot
MaxFaults == 1      \* failures other than exhaustion per snapshot
MaxCalls == 3       \* __enter__ / __exit__ calls on the Device

\* errno of an OSError raised by ioctl: EINVAL is "no entry at this index",
\* EIO stands for every other failure
Exhausted == "EINVAL"
Fault == "EIO"

OSError(errno) == [ok |-> FALSE, errno |-> errno]
Filled(buf) == [ok |-> TRUE, buf |-> buf]

\* what a device may write into a v4l2_fmtdesc
FmtAnswers == {[flags |-> 0, pixelformat |-> pf, mbus_code |-> 0] :
                 pf \in {PixelFormat.YUYV, PixelFormat.MJPEG, UnknownFourcc}}

\* what a device may write into a v4l2_frmsizeenum
SizeAnswers == { [type |-> 1, m |-> <<640, 480, 0, 0, 0, 0>>],
                 [type |-> 3, m |-> <<16, 1920, 2, 16, 1080, 2>>],
                 [type |-> 2, m |-> <<16, 1920, 1, 16, 1080, 1>>],
                 [type |-> 0, m |-> <<640, 480, 0, 0, 0, 0>>] }

\* what a device may write into a v4l2_frmivalenum
IvalAnswers == { [type |-> 1, m |-> <<1, 30, 0, 0, 0, 0>>],
                 [type |-> 3, m |-> <<1, 60, 1, 15, 1, 60>>],
                 [type |-> 2, m |-> <<1, 60, 1, 15, 1, 60>>],
                 [type |-> 4, m |-> <<1, 30, 0, 0, 0, 0>>] }

\* a frame-interval reply in which the driver has also rewritten the frame
\* size of the record to the one it works at
IvalAdjusted == [type |-> 1, m |-> <<1, 15, 0, 0, 0, 0>>, width |-> 320, height |-> 240]

\* the device_caps words a device may report
DeviceCapsChoices == {
    {},
    BitOr(Capabilities.VIDEO_CAPTURE,
          BitOr(Capabilities.EXT_PIX_FORMAT, Capabilities.STREAMING)),
    BitOr(BitOr(Capabilities.VIDEO_CAPTURE, Capabilities.VIDEO_OUTPUT),
          Capabilities.STREAMING),
    BitOr(BitOr(Capabilities.VBI_CAPTURE, Capabilities.VIDEO_OUTPUT_OVERLAY),
          BitOr(Capabilities.META_CAPTURE, Capabilities.TUNER)) }

\* the capabilities words of the whole physical device that may go with it
GlobalCapsChoices(device_caps) == {
    BitOr(device_caps, Capabilities.DEVICE_CAPS),
    BitOr(BitOr(device_caps, Capabilities.DEVICE_CAPS),
          BitOr(BitOr(Capabilities.VIDEO_CAPTURE, Capabilities.VIDEO_OVERLAY),
                BitOr(Capabilities.SLICED_VBI_CAPTURE, Capabilities.SDR_CAPTURE))) }

\* the v4l2_capability records a device may return, version 5.15.0
CapAnswers ==
    UNION {{[version |-> 331520, capabilities |-> g, device_caps |-> d] :
              g \in GlobalCapsChoices(d)} : d \in DeviceCapsChoices}

\* the replies of the transport to one enumeration request carrying buf; the
\* kernel fills the reply fields into the record that carried the request
Replies(request, buf, oks, faults) ==
    {OSError(Exhausted)}
    \cup (IF faults < MaxFaults THEN {OSError(Fault)} ELSE {})
    \cup (IF oks >= MaxOk THEN {}
          ELSE IF request = vidioc_enum_fmt
          THEN {Filled([buf EXCEPT !.flags = a.flags, !.pixelformat = a.pixelformat,
                                   !.mbus_code = a.mbus_code]) : a \in FmtAnswers}
          ELSE IF request = vidioc_enum_framesizes
          THEN {Filled([buf EXCEPT !.type = a.type, !.m = a.m]) : a \in SizeAnswers}
          ELSE IF request = vidioc_enum_frameintervals
          THEN {Filled([buf EXCEPT !.type = a.type, !.m = a.m]) : a \in IvalAnswers}
               \cup {Filled([buf EXCEPT !.type = IvalAdjusted.type, !.m = IvalAdjusted.m,
                                        !.width = IvalAdjusted.width,
                                        !.height = IvalAdjusted.height])}
          ELSE {})

(* ---------------------------------------------------------------------- *)
(* _device.py: one turn of each enumerator loop                            *)
(* A turn takes the outcome res of the ioctl and gives what the generator  *)
(* does with it: ctl is "next" (index += 1, loop), "break" (the except     *)
(* OSError branch: the generator returns) or "raise" (an exception that    *)
(* is no OSError leaves the generator); yield holds the value yielded in   *)
(* this turn, if any.                                                      *)
(* ---------------------------------------------------------------------- *)

Turn(ctl, exc, yield) == [ctl |-> ctl, exc |-> exc, yield |-> yield]

\* a mutation of iter_image_formats: a fault that is not exhaustion is passed
\* over and the next index is tried
iter_image_formats_SkipFault(buffer_type, res) ==
    IF ~res.ok /\ res.errno = Exhausted THEN Turn("break", None, <<>>)
    ELSE IF ~res.ok THEN Turn("next", None, <<>>)
    ELSE IF ~IsPixelFormat(res.buf.pixelformat) THEN Turn("raise", "ValueError", <<>>)
    ELSE Turn("next", None,
              <<ImageFormat(buffer_type, res.buf.flags, res.buf.pixelformat,
                            res.buf.mbus_code)>>)

iter_image_formats(buffer_type, res) ==
    IF ~res.ok THEN Turn("break", None, <<>>)
    ELSE IF ~IsPixelFormat(res.buf.pixelformat) THEN Turn("raise", "ValueError", <<>>)
    ELSE Turn("next", None,
              <<ImageFormat(buffer_type, res.buf.flags, res.buf.pixelformat,
                            res.buf.mbus_code)>>)

\* a mutation of iter_frame_sizes: `except Exception`, so that a type tag
\* FrameSizeType() rejects ends the enumeration like an OSError does
iter_frame_sizes_CatchAll(pixel_format, res) ==
    IF ~res.ok THEN Turn("break", None, <<>>)
    ELSE IF ~IsFrameSizeType(res.buf.type) THEN Turn("break", None, <<>>)
    ELSE IF res.buf.type = FrameSizeType.STEPWISE
    THEN Turn("next", None,
              <<StepwiseFrameSize(pixel_format, res.buf.m[1], res.buf.m[2],
                                  res.buf.m[3], res.buf.m[4], res.buf.m[5],
                                  res.buf.m[6])>>)
    ELSE IF res.buf.type = FrameSizeType.DISCRETE
    THEN Turn("next", None,
              <<DiscreteFrameSize(pixel_format, res.buf.m[1], res.buf.m[2])>>)
    ELSE Turn("next", None, <<>>)

iter_frame_sizes(pixel_format, res) ==
    IF ~res.ok THEN Turn("break", None, <<>>)
    ELSE IF ~IsFrameSizeType(res.buf.type) THEN Turn("raise", "ValueError", <<>>)
    ELSE IF res.buf.type = FrameSizeType.STEPWISE
    THEN Turn("next", None,
              <<StepwiseFrameSize(pixel_format, res.buf.m[1], res.buf.m[2],
                                  res.buf.m[3], res.buf.m[4], res.buf.m[5],
                                  res.buf.m[6])>>)
    ELSE IF res.buf.type = FrameSizeType.DISCRETE
    THEN Turn("next", None,
              <<DiscreteFrameSize(pixel_format, res.buf.m[1], res.buf.m[2])>>)
    ELSE Turn("next", None, <<>>)

\* a mutation of iter_frame_intervals: the key fields of the yielded value are
\* read back from the reply record
iter_frame_intervals_ReadBack(pixel_format, width, height, res) ==
    IF ~res.ok THEN Turn("break", None, <<>>)
    ELSE IF ~IsFrameIntervalType(res.buf.type) THEN Turn("raise", "ValueError", <<>>)
    ELSE IF res.buf.type = FrameIntervalType.DISCRETE
    THEN IF res.buf.m[2] = 0 THEN Turn("raise", "ZeroDivisionError", <<>>)
         ELSE Turn("next", None,
                   <<DiscreteFrameInterval(res.buf.pixel_format, res.buf.width, res.buf.height,
                                           Fraction(res.buf.m[1], res.buf.m[2]))>>)
    ELSE IF res.buf.type = FrameIntervalType.STEPWISE
    THEN IF res.buf.m[2] = 0 \/ res.buf.m[4] = 0 \/ res.buf.m[6] = 0
         THEN Turn("raise", "ZeroDivisionError", <<>>)
         ELSE Turn("next", None,
                   <<StepwiseFrameInterval(res.buf.pixel_format, res.buf.width, res.buf.height,
                                           Fraction(res.buf.m[1], res.buf.m[2]),
                                           Fraction(res.buf.m[3], res.buf.m[4]),
                                           Fraction(res.buf.m[5], res.buf.m[6]))>>)
    ELSE Turn("next", None, <<>>)

iter_frame_intervals(pixel_format, width, height, res) ==
    IF ~res.ok THEN Turn("break", None, <<>>)
    ELSE IF ~IsFrameIntervalType(res.buf.type) THEN Turn("raise", "ValueError", <<>>)
    ELSE IF res.buf.type = FrameIntervalType.DISCRETE
    THEN IF res.buf.m[2] = 0 THEN Turn("raise", "ZeroDivisionError", <<>>)
         ELSE Turn("next", None,
                   <<DiscreteFrameInterval(pixel_format, width, height,
                                           Fraction(res.buf.m[1], res.buf.m[2]))>>)
    ELSE IF res.buf.type = FrameIntervalType.STEPWISE
    THEN IF res.buf.m[2] = 0 \/ res.buf.m[4] = 0 \/ res.buf.m[6] = 0
         THEN Turn("raise", "ZeroDivisionError", <<>>)
         ELSE Turn("next", None,
                   <<StepwiseFrameInterval(pixel_format, width, height,
                                           Fraction(res.buf.m[1], res.buf.m[2]),
                                           Fraction(res.buf.m[3], res.buf.m[4]),
                                           Fraction(res.buf.m[5], res.buf.m[6]))>>)
    ELSE Turn("next", None, <<>>)

(* ---------------------------------------------------------------------- *)
(* DeviceInfo.from_file: the pieces that decide what is queried            *)
(* ---------------------------------------------------------------------- *)

supported_buffer_types ==
    {"VIDEO_CAPTURE", "VIDEO_CAPTURE_MPLANE", "VIDEO_OUTPUT", "VIDEO_OUTPUT_MPLANE",
     "VIDEO_OVERLAY", "SDR_CAPTURE", "SDR_OUTPUT", "META_CAPTURE", "META_OUTPUT"}

\* {typ for typ in BufferType if Capabilities[typ.name] in device_capabilities}
device_buffer_types(device_capabilities) ==
    {typ \in DOMAIN BufferType : Capabilities[typ] \subseteq device_capabilities}

\* a mutation of QueriedBufferTypes: the global capability word decides
QueriedBufferTypes_Global(buf) ==
    supported_buffer_types \cap device_buffer_types(buf.capabilities)

\* the buffer types the format loop iterates over, buf the capability record
QueriedBufferTypes(buf) ==
    supported_buffer_types \cap device_buffer_types(buf.device_caps)

\* a mutation of AddPixelFormats: the set is replaced by the newest format
AddPixelFormats_Replace(seen, yield) ==
    IF yield = <<>> THEN seen ELSE {yield[i].pixel_format : i \in 1..Len(yield)}

\* pixel_formats.add(image_format.pixel_format) for the image formats of
\* yield, seen the set pixel_formats
AddPixelFormats(seen, yield) ==
    seen \cup {yield[i].pixel_format : i \in 1..Len(yield)}

\* isinstance(frame_size, DiscreteFrameSize)
IsDiscreteFrameSize(frame_size) == frame_size.cls = "DiscreteFrameSize"

\* a mutation of IntervalKey: width and height passed in the order of
\* DiscreteFrameSize.__repr__
IntervalKey_Swapped(frame_size) ==
    <<frame_size.pixel_format, frame_size.height, frame_size.width>>

\* the arguments of iter_frame_intervals for a discrete frame size
IntervalKey(frame_size) ==
    <<frame_size.pixel_format, frame_size.width, frame_size.height>>

\* the DeviceInfo built at the end of from_file
DeviceInfo(buf, image_formats, frame_sizes, frame_intervals) ==
    [version |-> <<FieldValue(Bits(buf.version), 16, 8),
                   FieldValue(Bits(buf.version), 8, 8),
                   FieldValue(Bits(buf.version), 0, 8)>>,
     capabilities |-> buf.capabilities,
     device_capabilities |-> buf.device_caps,
     image_formats |-> image_formats,
     frame_sizes |-> frame_sizes,
     frame_intervals |-> frame_intervals]

(* ---------------------------------------------------------------------- *)
(* State                                                                   *)
(* ---------------------------------------------------------------------- *)

VARIABLES
    fd,               \* Device.fd: None, or the file object: "open" / "closed"
    info,             \* Device.info: Nothing or Some(DeviceInfo)
    ret,              \* how the latest __enter__ ended: "self", "None", "raised"
    exc,              \* the exception that left the latest __enter__, or None
    calls,            \* __enter__ / __exit__ calls made so far
    pc,               \* where __enter__ is: "idle" or a place in from_file
    buf,              \* from_file: the v4l2_capability record once filled
    todo,             \* from_file: the members of the set being iterated that are left
    gen,              \* from_file: the running generator Some([fn, key, index])
    image_formats,    \* from_file: list
    pixel_formats,    \* from_file: set
    frame_sizes,      \* from_file: list
    pos,              \* from_file: position of the interval loop in frame_sizes
    frame_intervals,  \* from_file: list
    runs,             \* history: every generator run, its requests and yields
    oks,              \* history: successful enumeration replies so far
    faults,           \* history: failures other than exhaustion so far
    request,          \* the latest IOC(direction, number, size) built, if any
    vidioc,           \* _ioctl.py: the request objects defined so far
    cc,               \* a pixel-format code under construction: arguments and result
    frac,             \* a frame-interval reply, the value decoded from it, its rate
    pair,             \* two generators sharing one descriptor, and their device
    scan              \* iter_video_capture_files: the directory and the generator

vars == <<fd, info, ret, exc, calls, pc, buf, todo, gen, image_formats,
          pixel_formats, frame_sizes, pos, frame_intervals, runs, oks, faults,
          request, vidioc, cc, frac, pair, scan>>

deviceVars == <<fd, info, ret, exc, calls, pc, buf, todo, gen, image_formats,
                pixel_formats, frame_sizes, pos, frame_intervals, runs, oks, faults>>
iocVars == <<request, vidioc>>
extraVars == <<cc, frac, pair, scan>>
otherVars == <<iocVars, extraVars>>
localVars == <<buf, todo, gen, image_formats, pixel_formats, frame_sizes, pos,
               frame_intervals>>

\* nothing under construction, no generator pair, no directory scan
InitExtra == cc = Nothing /\ frac = Nothing /\ pair = Nothing /\ scan = Nothing

\* Device.__init__ and the start of a module whose requests are all defined
InitDevice ==
    /\ fd = None /\ info = Nothing /\ ret = None /\ exc = None
    /\ calls = 0 /\ pc = "idle"
    /\ buf = Nothing /\ todo = {} /\ gen = Nothing
    /\ image_formats = <<>> /\ pixel_formats = {} /\ frame_sizes = <<>>
    /\ pos = 0 /\ frame_intervals = <<>>
    /\ runs = <<>> /\ oks = 0 /\ faults = 0

Init ==
    /\ InitDevice /\ InitExtra
    /\ request = Nothing
    /\ vidioc = [i \in 1..Len(VidiocDefs) |-> Vidioc(VidiocDefs[i])]

\* the frame of from_file is gone once it returns or raises
DropLocals ==
    /\ buf' = Nothing /\ todo' = {} /\ gen' = Nothing
    /\ image_formats' = <<>> /\ pixel_formats' = {} /\ frame_sizes' = <<>>
    /\ pos' = 0 /\ frame_intervals' = <<>>

\* an exception leaves from_file and then __enter__: nothing catches it
Raise(e) ==
    /\ pc' = "idle" /\ ret' = "raised" /\ exc' = e
    /\ DropLocals
    /\ UNCHANGED <<fd, info>>

(* ---------------------------------------------------------------------- *)
(* History of the generator runs                                           *)
(* ---------------------------------------------------------------------- *)

NewRun(fn, key) == [fn |-> fn, key |-> key, reqs |-> <<>>, yielded |-> <<>>,
                    end |-> "running"]

\* the running generator sent req, got res and took turn t
Record(req, sent, res, t) ==
    [runs EXCEPT ![Len(runs)] =
        [@ EXCEPT !.reqs = Append(@, [request |-> req, buf |-> sent, res |-> res]),
                  !.yielded = @ \o t.yield,
                  !.end = IF t.ctl = "break" THEN "returned"
                          ELSE IF t.ctl = "raise" THEN "raised" ELSE "running"]]

Count(res) ==
    /\ oks' = IF res.ok THEN oks + 1 ELSE oks
    /\ faults' = IF ~res.ok /\ res.errno = Fault THEN faults + 1 ELSE faults

(* ---------------------------------------------------------------------- *)
(* Device.__enter__ / Device.__exit__                                      *)
(* ---------------------------------------------------------------------- *)

\* __enter__ with self.fd None: open() succeeds, from_file starts
EnterOpen ==
    /\ pc = "idle" /\ calls < MaxCalls /\ fd = None
    /\ fd' = "open" /\ pc' = "querycap" /\ calls' = calls + 1
    /\ ret' = None /\ exc' = None
    /\ UNCHANGED <<info, localVars, runs, oks, faults, otherVars>>

\* __enter__ with self.fd None: open() raises, self.fd stays None
EnterOpenFails ==
    /\ pc = "idle" /\ calls < MaxCalls /\ fd = None
    /\ ret' = "raised" /\ exc' = "OSError" /\ calls' = calls + 1
    /\ UNCHANGED <<fd, info, pc, localVars, runs, oks, faults, otherVars>>

\* __enter__ with self.fd set: the if body is skipped, the method returns None
EnterAgain ==
    /\ pc = "idle" /\ calls < MaxCalls /\ fd # None
    /\ ret' = "None" /\ exc' = None /\ calls' = calls + 1
    /\ UNCHANGED <<fd, info, pc, localVars, runs, oks, faults, otherVars>>

\* __exit__: closes the file object if there is one, keeps self.fd and self.info
Exit ==
    /\ pc = "idle" /\ calls < MaxCalls
    /\ fd' = IF fd = None THEN None ELSE "closed"
    /\ calls' = calls + 1
    /\ UNCHANGED <<info, ret, exc, pc, localVars, runs, oks, faults, otherVars>>

(* ---------------------------------------------------------------------- *)
(* DeviceInfo.from_file, one action per control request                    *)
(* ---------------------------------------------------------------------- *)

\* vidioc_querycap(fd, buf) and the computation of the buffer types to query
QueryCap ==
    /\ pc = "querycap"
    /\ \E res \in {Filled(a) : a \in CapAnswers}
                  \cup (IF faults < MaxFaults THEN {OSError(Fault)} ELSE {}) :
         IF res.ok
         THEN /\ buf' = Some(res.buf)
              /\ todo' = QueriedBufferTypes(res.buf)
              /\ pc' = "formats"
              /\ UNCHANGED <<fd, info, ret, exc, gen, image_formats, pixel_formats,
                             frame_sizes, pos, frame_intervals, faults>>
         ELSE /\ Raise("OSError")
              /\ faults' = faults + 1
    /\ UNCHANGED <<calls, runs, oks, otherVars>>

\* for buffer_type in (supported_buffer_types & device_buffer_types): the
\* iteration order of a set is arbitrary
StartImageFormats ==
    /\ pc = "formats" /\ gen = Nothing /\ todo # {}
    /\ \E buffer_type \in todo :
         /\ todo' = todo \ {buffer_type}
         /\ gen' = Some([fn |-> "iter_image_formats", key |-> buffer_type, index |-> 0])
         /\ runs' = Append(runs, NewRun("iter_image_formats", buffer_type))
    /\ UNCHANGED <<fd, info, ret, exc, calls, pc, buf, image_formats, pixel_formats,
                   frame_sizes, pos, frame_intervals, oks, faults, otherVars>>

\* one turn of iter_image_formats and of the loop body consuming it
EnumImageFormats ==
    /\ pc = "formats" /\ gen # Nothing
    /\ LET sent == v4l2_fmtdesc(gen[1].index, BufferType[gen[1].key])
       IN \E res \in Replies(vidioc_enum_fmt, sent, oks, faults) :
            LET t == iter_image_formats(gen[1].key, res)
            IN /\ runs' = Record(vidioc_enum_fmt, sent, res, t)
               /\ Count(res)
               /\ IF t.ctl = "raise" THEN Raise(t.exc)
                  ELSE /\ gen' = IF t.ctl = "break" THEN Nothing
                                 ELSE Some([gen[1] EXCEPT !.index = @ + 1])
                       /\ image_formats' = image_formats \o t.yield
                       /\ pixel_formats' = AddPixelFormats(pixel_formats, t.yield)
                       /\ UNCHANGED <<fd, info, ret, exc, pc, buf, todo, frame_sizes,
                                      pos, frame_intervals>>
    /\ UNCHANGED <<calls, otherVars>>

\* the format loop is over: the frame-size comprehension starts on pixel_formats
FormatsDone ==
    /\ pc = "formats" /\ gen = Nothing /\ todo = {}
    /\ pc' = "sizes" /\ todo' = pixel_formats
    /\ UNCHANGED <<fd, info, ret, exc, calls, buf, gen, image_formats, pixel_formats,
                   frame_sizes, pos, frame_intervals, runs, oks, faults, otherVars>>

\* for pixel_format in pixel_formats
StartFrameSizes ==
    /\ pc = "sizes" /\ gen = Nothing /\ todo # {}
    /\ \E pixel_format \in todo :
         /\ todo' = todo \ {pixel_format}
         /\ gen' = Some([fn |-> "iter_frame_sizes", key |-> pixel_format, index |-> 0])
         /\ runs' = Append(runs, NewRun("iter_frame_sizes", pixel_format))
    /\ UNCHANGED <<fd, info, ret, exc, calls, pc, buf, image_formats, pixel_formats,
                   frame_sizes, pos, frame_intervals, oks, faults, otherVars>>

\* one turn of iter_frame_sizes and of the comprehension consuming it
EnumFrameSizes ==
    /\ pc = "sizes" /\ gen # Nothing
    /\ LET sent == v4l2_frmsizeenum(gen[1].index, gen[1].key)
       IN \E res \in Replies(vidioc_enum_framesizes, sent, oks, faults) :
            LET t == iter_frame_sizes(gen[1].key, res)
            IN /\ runs' = Record(vidioc_enum_framesizes, sent, res, t)
               /\ Count(res)
               /\ IF t.ctl = "raise" THEN Raise(t.exc)
                  ELSE /\ gen' = IF t.ctl = "break" THEN Nothing
                                 ELSE Some([gen[1] EXCEPT !.index = @ + 1])
                       /\ frame_sizes' = frame_sizes \o t.yield
                       /\ UNCHANGED <<fd, info, ret, exc, pc, buf, todo, image_formats,
                                      pixel_formats, pos, frame_intervals>>
    /\ UNCHANGED <<calls, otherVars>>

\* the comprehension is over: the interval loop starts at the head of frame_sizes
FrameSizesDone ==
    /\ pc = "sizes" /\ gen = Nothing /\ todo = {}
    /\ pc' = "intervals" /\ pos' = 1
    /\ UNCHANGED <<fd, info, ret, exc, calls, buf, todo, gen, image_formats,
                   pixel_formats, frame_sizes, frame_intervals, runs, oks, faults,
                   otherVars>>

\* for frame_size in frame_sizes: a discrete one starts iter_frame_intervals
StartFrameIntervals ==
    /\ pc = "intervals" /\ gen = Nothing /\ pos <= Len(frame_sizes)
    /\ IsDiscreteFrameSize(frame_sizes[pos])
    /\ gen' = Some([fn |-> "iter_frame_intervals",
                    key |-> IntervalKey(frame_sizes[pos]), index |-> 0])
    /\ runs' = Append(runs, NewRun("iter_frame_intervals", IntervalKey(frame_sizes[pos])))
    /\ UNCHANGED <<fd, info, ret, exc, calls, pc, buf, todo, image_formats,
                   pixel_formats, frame_sizes, pos, frame_intervals, oks, faults,
                   otherVars>>

\* for frame_size in frame_sizes: any other one is passed over
SkipFrameSize ==
    /\ pc = "intervals" /\ gen = Nothing /\ pos <= Len(frame_sizes)
    /\ ~IsDiscreteFrameSize(frame_sizes[pos])
    /\ pos' = pos + 1
    /\ UNCHANGED <<fd, info, ret, exc, calls, pc, buf, todo, gen, image_formats,
                   pixel_formats, frame_sizes, frame_intervals, runs, oks, faults,
                   otherVars>>

\* one turn of iter_frame_intervals and of the extend() consuming it
EnumFrameIntervals ==
    /\ pc = "intervals" /\ gen # Nothing
    /\ LET sent == v4l2_frmivalenum(gen[1].index, gen[1].key[1], gen[1].key[2], gen[1].key[3])
       IN \E res \in Replies(vidioc_enum_frameintervals, sent, oks, faults) :
            LET t == iter_frame_intervals(gen[1].key[1], gen[1].key[2], gen[1].key[3], res)
            IN /\ runs' = Record(vidioc_enum_frameintervals, sent, res, t)
               /\ Count(res)
               /\ IF t.ctl = "raise" THEN Raise(t.exc)
                  ELSE /\ gen' = IF t.ctl = "break" THEN Nothing
                                 ELSE Some([gen[1] EXCEPT !.index = @ + 1])
                       /\ pos' = IF t.ctl = "break" THEN pos + 1 ELSE pos
                       /\ frame_intervals' = frame_intervals \o t.yield
                       /\ UNCHANGED <<fd, info, ret, exc, pc, buf, todo, image_formats,
                                      pixel_formats, frame_sizes>>
    /\ UNCHANGED <<calls, otherVars>>

\* return cls(...), then self.info = ... and return self in __enter__
Return ==
    /\ pc = "intervals" /\ gen = Nothing /\ pos > Len(frame_sizes)
    /\ info' = Some(DeviceInfo(buf[1], image_formats, frame_sizes, frame_intervals))
    /\ ret' = "self" /\ exc' = None /\ pc' = "idle"
    /\ DropLocals
    /\ UNCHANGED <<fd, calls, runs, oks, faults, otherVars>>

Next ==
    \/ EnterOpen \/ EnterOpenFails \/ EnterAgain \/ Exit
    \/ QueryCap
    \/ StartImageFormats \/ EnumImageFormats \/ FormatsDone
    \/ StartFrameSizes \/ EnumFrameSizes \/ FrameSizesDone
    \/ StartFrameIntervals \/ SkipFrameSize \/ EnumFrameIntervals
    \/ Return

Spec == Init /\ [][Next]_vars

(* ---------------------------------------------------------------------- *)
(* Request-code construction on its own: IOC(...) on arbitrary in-range    *)
(* arguments, and the module body of _ioctl.py defining its nine requests  *)
(* ---------------------------------------------------------------------- *)

Directions == 0..3
Numbers == {0, 2, 4, 5, 21, 22, 64, 74, 75, 255}
Sizes == {sizeof[r] : r \in DOMAIN sizeof} \cup {0, 1, 16383}

InitIOC ==
    /\ InitDevice /\ InitExtra
    /\ request = Nothing
    /\ vidioc = <<>>

\* IOC(direction, number, size).request, for one object per behaviour
BuildIOC ==
    /\ request = Nothing
    /\ \E direction \in Directions, number \in Numbers, size \in Sizes :
         request' = Some([direction |-> direction, number |-> number, size |-> size,
                          request |-> IOC(direction, number, size)])
    /\ UNCHANGED <<vidioc, deviceVars, extraVars>>

\* the next `vidioc_... = IOR/IOWR(number, record)` statement of _ioctl.py
DefineVidioc ==
    /\ Len(vidioc) < Len(VidiocDefs)
    /\ vidioc' = Append(vidioc, Vidioc(VidiocDefs[Len(vidioc) + 1]))
    /\ UNCHANGED <<request, deviceVars, extraVars>>

NextIOC == BuildIOC \/ DefineVidioc

SpecIOC == InitIOC /\ [][NextIOC]_vars

(* ---------------------------------------------------------------------- *)
(* Properties                                                              *)
(* ---------------------------------------------------------------------- *)

\* the direction argument of the request object defined by d
DirOf(d) == IF d.dir = "IOR" THEN 2 ELSE 3

\* C7 (as amended): every request code built by IOC is a 32-bit word laid out,
\* from the highest bit to the lowest, as dir(2) | size(14) | type(8) |
\* number(8): direction in bits 30..31, payload size in bits 16..29, the
\* code of 'V' in bits 8..15 and the request number in bits 0..7.
C7_LayoutDirSizeTypeNumber ==
    /\ request # Nothing =>
         /\ request[1].request \subseteq 0..31
         /\ FieldValue(request[1].request, 30, 2) = request[1].direction
         /\ FieldValue(request[1].request, 16, 14) = request[1].size
         /\ FieldValue(request[1].request, 8, 8) = 86
         /\ FieldValue(request[1].request, 0, 8) = request[1].number
    /\ \A i \in 1..Len(vidioc) :
         /\ FieldValue(vidioc[i], 30, 2) = DirOf(VidiocDefs[i])
         /\ FieldValue(vidioc[i], 16, 14) = sizeof[VidiocDefs[i].record]
         /\ FieldValue(vidioc[i], 8, 8) = 86
         /\ FieldValue(vidioc[i], 0, 8) = VidiocDefs[i].number

\* C7 witness: a read+write request with every field non-zero has been built
C7_Witness ==
    /\ request # Nothing
    /\ request[1].direction = 3 /\ request[1].number = 75 /\ request[1].size = 52

\* C7 as stated: the layout is dir(2) | type(8) | number(8) | size(14), the
\* size in bits 0..13, the number in bits 14..21 and 'V' in bits 22..29.
C7_LayoutAsStated ==
    request # Nothing =>
         /\ FieldValue(request[1].request, 30, 2) = request[1].direction
         /\ FieldValue(request[1].request, 22, 8) = 86
         /\ FieldValue(request[1].request, 14, 8) = request[1].number
         /\ FieldValue(request[1].request, 0, 14) = request[1].size

\* C8: the codes of the requests defined by _ioctl.py (numbers 0, 2, 4, 5, 21,
\* 22, 64, 74, 75) are pairwise distinct, and every field of each fits its own
\* bit range: number below 2^8, size below 2^14, direction below 2^2.
C8_RequestCodesDistinct ==
    /\ \A i, j \in 1..Len(vidioc) : i # j => vidioc[i] # vidioc[j]
    /\ \A i \in 1..Len(vidioc) :
         /\ vidioc[i] \subseteq 0..31
         /\ VidiocDefs[i].number < Pow2(NRBITS)
         /\ sizeof[VidiocDefs[i].record] < Pow2(SIZEBITS)
         /\ DirOf(VidiocDefs[i]) < Pow2(DIRBITS)

\* C8 witness: all nine requests are defined
C8_Witness == Len(vidioc) = 9 /\ Len(VidiocDefs) = 9

(* ---------------------------------------------------------------------- *)
(* Properties of the enumerators and of the snapshot                       *)
(* ---------------------------------------------------------------------- *)

IsFault(res) == ~res.ok /\ res.errno = Fault
IsExhaustion(res) == ~res.ok /\ res.errno = Exhausted

\* the replies of run r before its last one all succeeded
SucceededUntilLast(r) ==
    /\ Len(r.reqs) >= 1
    /\ \A k \in 1..(Len(r.reqs) - 1) : r.reqs[k].res.ok

\* value v is the typed value of the reply record b of generator fn: an
\* ImageFormat, or the Discrete / Stepwise value the type field selects, a
\* continuous reply read as a stepwise one
DecodedFrom(fn, v, b) ==
    IF fn = "iter_image_formats"
    THEN v.cls = "ImageFormat" /\ v.pixel_format = b.pixelformat
         /\ v.flags = b.flags /\ v.mbus_code = b.mbus_code
    ELSE IF fn = "iter_frame_sizes"
    THEN IF b.type = 1
         THEN v.cls = "DiscreteFrameSize" /\ v.width = b.m[1] /\ v.height = b.m[2]
         ELSE /\ b.type \in {2, 3} /\ v.cls = "StepwiseFrameSize"
              /\ <<v.min_width, v.max_width, v.step_width,
                   v.min_height, v.max_height, v.step_height>> = b.m
    ELSE IF b.type = 1
         THEN /\ v.cls = "DiscreteFrameInterval"
              /\ v.fraction.numerator * b.m[2] = v.fraction.denominator * b.m[1]
         ELSE /\ b.type \in {2, 3} /\ v.cls = "StepwiseFrameInterval"
              /\ v.min.numerator * b.m[2] = v.min.denominator * b.m[1]
              /\ v.max.numerator * b.m[4] = v.max.denominator * b.m[3]
              /\ v.step.numerator * b.m[6] = v.step.denominator * b.m[5]

\* C1: a generator that got N successful replies and then the exhaustion
\* signal has returned normally after yielding exactly N values, the k-th
\* one decoded from the reply to the request that carried index k.
C1_YieldsOnePerReply ==
    \A i \in 1..Len(runs) :
        LET r == runs[i]
            N == Len(r.reqs) - 1
        IN (SucceededUntilLast(r) /\ IsExhaustion(r.reqs[N + 1].res)) =>
              /\ r.end = "returned"
              /\ Len(r.yielded) = N
              /\ \A k \in 1..N :
                    /\ r.reqs[k].buf.index = k - 1
                    /\ DecodedFrom(r.fn, r.yielded[k], r.reqs[k].res.buf)

\* C2: a generator whose request for entry k failed with a fault that is not
\* exhaustion, after k successes, has yielded k values and ended by raising,
\* never by returning normally.
C2_FaultIsHardError ==
    \A i \in 1..Len(runs) :
        LET r == runs[i]
        IN (SucceededUntilLast(r) /\ IsFault(r.reqs[Len(r.reqs)].res)) =>
              /\ r.end = "raised"
              /\ Len(r.yielded) = Len(r.reqs) - 1

\* C3: a DeviceInfo exists only if no control request of the aggregation
\* failed with a fault other than exhaustion.
C3_NoPartialSnapshot ==
    info # Nothing =>
        \A i \in 1..Len(runs) : \A k \in 1..Len(runs[i].reqs) :
            ~IsFault(runs[i].reqs[k].res)

\* from_file is running past the capability query, or has returned
Live == pc \in {"formats", "sizes", "intervals"}
Returned == info # Nothing

\* the frame_sizes list of the running or returned from_file
CurrentFrameSizes ==
    IF Returned THEN info[1].frame_sizes ELSE frame_sizes

RunsOf(fn) == SelectSeq(runs, LAMBDA r : r.fn = fn)
IsDiscreteSize(v) == v.cls = "DiscreteFrameSize"

\* C4: every stepwise frame size the device reported is in frame_sizes; every
\* frame-interval request carries the (pixel format, width, height) of a
\* discrete entry of frame_sizes, so none is issued for a stepwise size; and
\* in the returned snapshot the frame-interval enumerations are, in order,
\* one per discrete entry of frame_sizes.
C4_IntervalsOnlyForDiscrete ==
    (Live \/ Returned) =>
      /\ \A i \in 1..Len(runs) : \A k \in 1..Len(runs[i].reqs) :
            LET r == runs[i]
                res == r.reqs[k].res
            IN (r.fn = "iter_frame_sizes" /\ res.ok /\ res.buf.type = 3) =>
                 \E j \in 1..Len(CurrentFrameSizes) :
                    LET v == CurrentFrameSizes[j]
                    IN /\ v.cls = "StepwiseFrameSize"
                       /\ v.pixel_format = r.key
                       /\ <<v.min_width, v.max_width, v.step_width,
                            v.min_height, v.max_height, v.step_height>> = res.buf.m
      /\ \A i \in 1..Len(runs) :
            runs[i].fn = "iter_frame_intervals" =>
              /\ \E j \in 1..Len(CurrentFrameSizes) :
                    LET v == CurrentFrameSizes[j]
                    IN /\ v.cls = "DiscreteFrameSize"
                       /\ runs[i].key = <<v.pixel_format, v.width, v.height>>
              /\ \A k \in 1..Len(runs[i].reqs) :
                    LET b == runs[i].reqs[k].buf
                    IN <<b.pixel_format, b.width, b.height>> = runs[i].key
      /\ Returned =>
            LET probes == RunsOf("iter_frame_intervals")
                discrete == SelectSeq(info[1].frame_sizes, IsDiscreteSize)
            IN /\ Len(probes) = Len(discrete)
               /\ \A j \in 1..Len(discrete) :
                     /\ probes[j].key = <<discrete[j].pixel_format,
                                          discrete[j].width, discrete[j].height>>
                     /\ Len(probes[j].reqs) >= 1

\* C4 witness: a snapshot was returned whose frame_sizes holds a stepwise and
\* a discrete size, and a frame-interval request was sent
C4_Witness ==
    /\ Returned
    /\ \E j \in 1..Len(info[1].frame_sizes) :
          info[1].frame_sizes[j].cls = "StepwiseFrameSize"
    /\ \E j \in 1..Len(info[1].frame_sizes) :
          info[1].frame_sizes[j].cls = "DiscreteFrameSize"
    /\ \E i \in 1..Len(runs) :
          runs[i].fn = "iter_frame_intervals" /\ Len(runs[i].reqs) >= 1

RECURSIVE SumOver(_, _)
SumOver(f, n) == IF n = 0 THEN 0 ELSE f[n] + SumOver(f, n - 1)

\* the number of successful replies the generators fn received
Reported(fn) ==
    LET rs == RunsOf(fn)
        oksOf == [i \in 1..Len(rs) |->
                    Cardinality({k \in 1..Len(rs[i].reqs) : rs[i].reqs[k].res.ok})]
    IN SumOver(oksOf, Len(rs))

\* C5: the returned snapshot holds exactly the entries the device reported:
\* one ImageFormat per successful format reply, one FrameSize per successful
\* frame-size reply, one FrameInterval per successful frame-interval reply,
\* and device_capabilities has the flag of every buffer type that was queried
\* (the capture flag for a capture device).
C5_SnapshotHoldsAllReported ==
    Returned =>
      /\ Len(info[1].image_formats) = Reported("iter_image_formats")
      /\ Len(info[1].frame_sizes) = Reported("iter_frame_sizes")
      /\ Len(info[1].frame_intervals) = Reported("iter_frame_intervals")
      /\ \A i \in 1..Len(runs) :
            runs[i].fn = "iter_image_formats" =>
               Capabilities[runs[i].key] \subseteq info[1].device_capabilities

\* the capability record of the running or returned from_file
CurrentDeviceCaps == IF Returned THEN info[1].device_capabilities ELSE buf[1].device_caps

FormatDiscoveryTypes ==
    {"VIDEO_CAPTURE", "VIDEO_OUTPUT", "VIDEO_CAPTURE_MPLANE", "VIDEO_OUTPUT_MPLANE",
     "VIDEO_OVERLAY", "SDR_CAPTURE", "SDR_OUTPUT", "META_CAPTURE", "META_OUTPUT"}

\* C6: a format enumeration is run for buffer type T only if T is one of the
\* nine format-discovery types and the capability flag named like T is set
\* in device_caps; when the snapshot is returned, exactly one enumeration
\* was run for each such T. The global capability word plays no part.
C6_QueriedTypesFromDeviceCaps ==
    (Live \/ Returned) =>
      /\ \A i \in 1..Len(runs) :
            runs[i].fn = "iter_image_formats" =>
              /\ runs[i].key \in FormatDiscoveryTypes
              /\ Capabilities[runs[i].key] \subseteq CurrentDeviceCaps
              /\ \A k \in 1..Len(runs[i].reqs) :
                    runs[i].reqs[k].buf.type = BufferType[runs[i].key]
      /\ Returned =>
            \A T \in FormatDiscoveryTypes :
               Capabilities[T] \subseteq CurrentDeviceCaps =>
                  Cardinality({i \in 1..Len(runs) :
                                 runs[i].fn = "iter_image_formats"
                                 /\ runs[i].key = T}) = 1

\* C6 witness: a snapshot was returned for a device whose global word has
\* the overlay flag that its device_caps lacks, after two format enumerations
C6_Witness ==
    /\ Returned
    /\ Capabilities.VIDEO_OVERLAY \subseteq info[1].capabilities
    /\ ~(Capabilities.VIDEO_OVERLAY \subseteq info[1].device_capabilities)
    /\ Len(RunsOf("iter_image_formats")) = 2

\* C9: when a failure of the probe in __enter__ has reached the caller, the
\* descriptor opened by that __enter__ is no longer open.
C9_DescriptorReleasedOnFailure ==
    ret = "raised" => fd # "open"

\* a successful reply that carries an identifier outside the known set
UnknownIdentifier(fn, b) ==
    IF fn = "iter_image_formats"
    THEN b.pixelformat \notin {PixelFormat.YUYV, PixelFormat.MJPEG}
    ELSE b.type \notin {1, 2, 3}

\* C10: a successful reply with an unknown pixel format or type tag is the
\* last request of its generator, which raised instead of returning and
\* yielded nothing for it; the failure left from_file and __enter__ as a
\* ValueError, and no DeviceInfo was built.
C10_UnknownIdentifierRejected ==
    \A i \in 1..Len(runs) : \A k \in 1..Len(runs[i].reqs) :
        LET r == runs[i]
            res == r.reqs[k].res
        IN (res.ok /\ UnknownIdentifier(r.fn, res.buf)) =>
              /\ k = Len(r.reqs) /\ i = Len(runs)
              /\ r.end = "raised"
              /\ Len(r.yielded) <= k - 1
              /\ info = Nothing /\ pc = "idle" /\ gen = Nothing
              /\ ret # "self"
              /\ (ret = "raised" => exc = "ValueError")

\* C10 witness: a generator yielded a value, then got a reply with an unknown
\* identifier, and __enter__ has raised
C10_Witness ==
    /\ ret = "raised" /\ exc = "ValueError"
    /\ Len(runs) >= 1
    /\ LET r == runs[Len(runs)]
       IN /\ Len(r.reqs) = 2 /\ Len(r.yielded) = 1
          /\ r.reqs[2].res.ok
          /\ UnknownIdentifier(r.fn, r.reqs[2].res.buf)

(* ---------------------------------------------------------------------- *)
(* Pixel-format construction on its own: v4l2_fourcc / v4l2_fourcc_be on   *)
(* four characters with codes 0..127                                       *)
(* ---------------------------------------------------------------------- *)

\* the _ioctl.py module is loaded: all its requests are defined
InitLoaded ==
    /\ request = Nothing
    /\ vidioc = [i \in 1..Len(VidiocDefs) |-> Vidioc(VidiocDefs[i])]

FourccChars == {"NUL", "SP", "A", "V", "DEL"}

InitFourcc ==
    /\ InitDevice /\ InitLoaded
    /\ frac = Nothing /\ pair = Nothing /\ scan = Nothing
    /\ \E a \in FourccChars, b \in FourccChars, c \in FourccChars, d \in FourccChars,
          be \in BOOLEAN :
         cc = Some([args |-> <<a, b, c, d>>, be |-> be, code |-> Nothing])

\* v4l2_fourcc(a, b, c, d)
BuildFourcc ==
    /\ cc # Nothing /\ cc[1].code = Nothing /\ ~cc[1].be
    /\ cc' = Some([cc[1] EXCEPT !.code =
                     Some(v4l2_fourcc(cc[1].args[1], cc[1].args[2],
                                      cc[1].args[3], cc[1].args[4]))])
    /\ UNCHANGED <<deviceVars, iocVars, frac, pair, scan>>

\* v4l2_fourcc_be(a, b, c, d)
BuildFourccBE ==
    /\ cc # Nothing /\ cc[1].code = Nothing /\ cc[1].be
    /\ cc' = Some([cc[1] EXCEPT !.code =
                     Some(v4l2_fourcc_be(cc[1].args[1], cc[1].args[2],
                                         cc[1].args[3], cc[1].args[4]))])
    /\ UNCHANGED <<deviceVars, iocVars, frac, pair, scan>>

NextFourcc == BuildFourcc \/ BuildFourccBE

SpecFourcc == InitFourcc /\ [][NextFourcc]_vars

\* C13: a code built from four characters (codes 0..127) and an endianness
\* marker splits back into them: bits 0..7, 8..15, 16..23 are the codes of
\* the first three characters, bits 24..30 the code of the fourth, and bit 31
\* is set exactly when the code was built by v4l2_fourcc_be.
C13_FourccRoundTrip ==
    (cc # Nothing /\ cc[1].code # Nothing) =>
        LET code == cc[1].code[1]
        IN /\ code \subseteq 0..31
           /\ FieldValue(code, 0, 8) = Ord[cc[1].args[1]]
           /\ FieldValue(code, 8, 8) = Ord[cc[1].args[2]]
           /\ FieldValue(code, 16, 8) = Ord[cc[1].args[3]]
           /\ FieldValue(code, 24, 7) = Ord[cc[1].args[4]]
           /\ (31 \in code) = cc[1].be

\* C13 witness: a big-endian code whose fourth character has code 127
C13_Witness ==
    /\ cc # Nothing /\ cc[1].code # Nothing
    /\ cc[1].be /\ cc[1].args = <<"A", "V", "SP", "DEL">>

(* ---------------------------------------------------------------------- *)
(* A discrete frame-interval reply on its own: decoded by                  *)
(* iter_frame_intervals, then read through __float__                       *)
(* ---------------------------------------------------------------------- *)

FracNumerators == {1, 2, 3, 4, 5, 6, 1001}
FracDenominators == {1, 2, 15, 25, 30, 60, 30000}

InitFraction ==
    /\ InitDevice /\ InitLoaded
    /\ cc = Nothing /\ pair = Nothing /\ scan = Nothing
    /\ \E n \in FracNumerators, d \in FracDenominators :
         frac = Some([reply |-> Filled([v4l2_frmivalenum(0, PixelFormat.YUYV, 640, 480)
                                           EXCEPT !.type = FrameIntervalType.DISCRETE,
                                                  !.m = <<n, d, 0, 0, 0, 0>>]),
                      value |-> Nothing, rate |-> Nothing])

\* the turn of iter_frame_intervals that receives the reply
DecodeInterval ==
    /\ frac # Nothing /\ frac[1].value = Nothing
    /\ LET b == frac[1].reply.buf
           t == iter_frame_intervals(b.pixel_format, b.width, b.height, frac[1].reply)
       IN frac' = Some([frac[1] EXCEPT !.value = t.yield])
    /\ UNCHANGED <<deviceVars, iocVars, cc, pair, scan>>

\* float(frame_interval)
FloatInterval ==
    /\ frac # Nothing /\ frac[1].value # Nothing /\ frac[1].rate = Nothing
    /\ frac' = Some([frac[1] EXCEPT !.rate =
                       Some(DiscreteFrameInterval_float(frac[1].value[1]))])
    /\ UNCHANGED <<deviceVars, iocVars, cc, pair, scan>>

NextFraction == DecodeInterval \/ FloatInterval

SpecFraction == InitFraction /\ [][NextFraction]_vars

\* C12 (as amended): the value yielded for a discrete reply n/d (n, d > 0)
\* holds the exact rational n/d as a pair of integers in lowest terms (so
\* 2/60 is held as 1/30, not as the pair of the reply), and its rate view
\* is d/n, which differs from n/d unless n = d.
C12_ExactRationalInLowestTerms ==
    (frac # Nothing /\ frac[1].value # Nothing) =>
        LET n == frac[1].reply.buf.m[1]
            d == frac[1].reply.buf.m[2]
            v == frac[1].value[1]
        IN /\ v.cls = "DiscreteFrameInterval"
           /\ v.fraction.numerator > 0 /\ v.fraction.denominator > 0
           /\ v.fraction.numerator * d = v.fraction.denominator * n
           /\ \A g \in 2..n : ~(v.fraction.numerator % g = 0
                                /\ v.fraction.denominator % g = 0)
           /\ frac[1].rate # Nothing =>
                /\ frac[1].rate[1].num * n = frac[1].rate[1].den * d
                /\ (n # d => frac[1].rate[1].num * d # frac[1].rate[1].den * n)

\* C12 witness: the reply 2/60 was decoded and its rate taken
C12_Witness ==
    /\ frac # Nothing /\ frac[1].rate # Nothing
    /\ frac[1].reply.buf.m[1] = 2 /\ frac[1].reply.buf.m[2] = 60

\* C12 as stated: the yielded value keeps the numerator / denominator pair of
\* the reply, and its rate view is d/n.
C12_PairPreserved ==
    (frac # Nothing /\ frac[1].value # Nothing) =>
        LET n == frac[1].reply.buf.m[1]
            d == frac[1].reply.buf.m[2]
            v == frac[1].value[1]
        IN /\ v.fraction.numerator = n /\ v.fraction.denominator = d
           /\ frac[1].rate # Nothing =>
                frac[1].rate[1].num * n = frac[1].rate[1].den * d

(* ---------------------------------------------------------------------- *)
(* iter_video_capture_files: one pass of the generator over a directory    *)
(* ---------------------------------------------------------------------- *)

\* the names in the scanned directory, as sequences of characters
DevNames == { <<"v", "i", "d", "e", "o", "0">>, <<"v", "i", "d", "e", "o", "1">>,
              <<"v", "i", "d", "e", "o">>, <<"v", "i", "d">>,
              <<"v", "b", "i", "0">>, <<"m", "e", "d", "i", "a", "0">> }

\* the prefix argument: the default "video", or "vbi"
Prefixes == { <<"v", "i", "d", "e", "o">>, <<"v", "b", "i">> }

\* whether name matches the pattern f"{prefix}*"
HasPrefix(name, prefix) ==
    Len(name) >= Len(prefix) /\ SubSeq(name, 1, Len(prefix)) = prefix

\* root.glob(f"{prefix}*")
glob(names, prefix) == {g \in names : HasPrefix(g, prefix)}

\* a mutation of IsVideoCapture: the flag looked up in buf.capabilities
IsVideoCapture_Global(b) == Capabilities.VIDEO_CAPTURE \subseteq b.capabilities

\* Capabilities.VIDEO_CAPTURE in Capabilities(buf.device_caps), b the record buf
IsVideoCapture(b) == Capabilities.VIDEO_CAPTURE \subseteq b.device_caps

InitScan ==
    /\ InitDevice /\ InitLoaded
    /\ cc = Nothing /\ frac = Nothing /\ pair = Nothing
    /\ \E prefix \in Prefixes :
         scan = Some([prefix |-> prefix, todo |-> glob(DevNames, prefix),
                      g |-> Nothing, fd |-> "closed", queried |-> <<>>,
                      yielded |-> <<>>, end |-> "running"])

\* the next g of the glob, in arbitrary order, and open(g, "r") succeeding
ScanOpen ==
    /\ scan # Nothing /\ scan[1].end = "running" /\ scan[1].g = Nothing
    /\ \E g \in scan[1].todo :
         scan' = Some([scan[1] EXCEPT !.todo = @ \ {g}, !.g = Some(g), !.fd = "open"])
    /\ UNCHANGED <<deviceVars, iocVars, cc, frac, pair>>

\* open(g, "r") raising: the exception leaves the generator
ScanOpenFails ==
    /\ scan # Nothing /\ scan[1].end = "running" /\ scan[1].g = Nothing
    /\ \E g \in scan[1].todo :
         scan' = Some([scan[1] EXCEPT !.todo = @ \ {g}, !.end = "raised"])
    /\ UNCHANGED <<deviceVars, iocVars, cc, frac, pair>>

\* the body of the with block: vidioc_querycap, the test of the capture flag,
\* and either the yield (the file stays open while the generator is
\* suspended) or the end of the block (the file is closed)
ScanQueryCap ==
    /\ scan # Nothing /\ scan[1].end = "running" /\ scan[1].g # Nothing
    /\ \E res \in {Filled(a) : a \in CapAnswers} \cup {OSError(Fault)} :
         IF ~res.ok
         THEN scan' = Some([scan[1] EXCEPT !.fd = "closed", !.end = "raised"])
         ELSE LET q == Append(scan[1].queried, [g |-> scan[1].g[1], buf |-> res.buf])
              IN IF IsVideoCapture(res.buf)
                 THEN scan' = Some([scan[1] EXCEPT !.queried = q,
                                       !.yielded = Append(@, scan[1].g[1]),
                                       !.end = "suspended"])
                 ELSE scan' = Some([scan[1] EXCEPT !.queried = q, !.g = Nothing,
                                       !.fd = "closed"])
    /\ UNCHANGED <<deviceVars, iocVars, cc, frac, pair>>

\* next() on the suspended generator: the with block ends, the file is closed
ScanResume ==
    /\ scan # Nothing /\ scan[1].end = "suspended"
    /\ scan' = Some([scan[1] EXCEPT !.g = Nothing, !.fd = "closed", !.end = "running"])
    /\ UNCHANGED <<deviceVars, iocVars, cc, frac, pair>>

\* the glob is used up: the generator returns
ScanReturn ==
    /\ scan # Nothing /\ scan[1].end = "running" /\ scan[1].g = Nothing
    /\ scan[1].todo = {}
    /\ scan' = Some([scan[1] EXCEPT !.end = "returned"])
    /\ UNCHANGED <<deviceVars, iocVars, cc, frac, pair>>

NextScan == ScanOpen \/ ScanOpenFails \/ ScanQueryCap \/ ScanResume \/ ScanReturn

SpecScan == InitScan /\ [][NextScan]_vars

\* C14: every node yielded by iter_video_capture_files has a name that starts
\* with the prefix and answered its capability query with a device_caps word
\* holding VIDEO_CAPTURE; a node whose device_caps lacks the flag is never
\* yielded, whatever its capabilities word holds.
C14_YieldsOnlyActiveCapture ==
    scan # Nothing =>
        LET sc == scan[1]
        IN /\ \A i \in 1..Len(sc.yielded) :
                /\ HasPrefix(sc.yielded[i], sc.prefix)
                /\ \E j \in 1..Len(sc.queried) :
                     /\ sc.queried[j].g = sc.yielded[i]
                     /\ 0 \in sc.queried[j].buf.device_caps
           /\ \A j \in 1..Len(sc.queried) :
                0 \notin sc.queried[j].buf.device_caps =>
                    \A i \in 1..Len(sc.yielded) : sc.yielded[i] # sc.queried[j].g

\* C14 witness: the scan returned after yielding one node and passing over
\* one whose capabilities word holds the flag and whose device_caps does not
C14_Witness ==
    /\ scan # Nothing /\ scan[1].end = "returned"
    /\ Len(scan[1].yielded) = 1
    /\ \E j \in 1..Len(scan[1].queried) :
         /\ 0 \in scan[1].queried[j].buf.capabilities
         /\ 0 \notin scan[1].queried[j].buf.device_caps

(* ---------------------------------------------------------------------- *)
(* Two generators over one descriptor, their requests interleaved          *)
(* ---------------------------------------------------------------------- *)

MaxEntries == 2   \* entries in each list the device enumerates
MaxStarts == 2    \* generators created per slot

\* sequences over S of length 0..n
SeqUpTo(S, n) == UNION {[1..k -> S] : k \in 0..n}

\* the driver enumerates fixed lists: its reply depends on the request code
\* and on the record sent (index and key fields), and on nothing else
DeviceReply(dev, fn, sent) ==
    LET list == IF fn = "iter_image_formats" THEN dev.fmts ELSE dev.ivals
    IN IF sent.index >= Len(list) THEN OSError(Exhausted)
       ELSE IF fn = "iter_image_formats"
       THEN Filled([sent EXCEPT !.flags = list[sent.index + 1].flags,
                                !.pixelformat = list[sent.index + 1].pixelformat,
                                !.mbus_code = list[sent.index + 1].mbus_code])
       ELSE Filled([sent EXCEPT !.type = list[sent.index + 1].type,
                                !.m = list[sent.index + 1].m])

\* the record a generator of function fn builds for one request
PairBuf(fn, index) ==
    IF fn = "iter_image_formats"
    THEN v4l2_fmtdesc(index, BufferType.VIDEO_CAPTURE)
    ELSE v4l2_frmivalenum(index, PixelFormat.YUYV, 640, 480)

\* the turn of the loop body of fn on the reply res
PairTurn(fn, res) ==
    IF fn = "iter_image_formats"
    THEN iter_image_formats("VIDEO_CAPTURE", res)
    ELSE iter_frame_intervals(PixelFormat.YUYV, 640, 480, res)

\* a generator object that has not run yet: index = 0
NewGenerator(fn, starts) ==
    [fn |-> fn, index |-> 0, sent |-> <<>>, yielded |-> <<>>, end |-> "running",
     starts |-> starts, overlap |-> FALSE]

\* a mutation of SentIndex: one counter shared by the generators
SentIndex_Shared(gens, i) == gens[1].index + gens[2].index

\* buf.index = index, index the local variable of generator i
SentIndex(gens, i) == gens[i].index

InitPair ==
    /\ InitDevice /\ InitLoaded
    /\ cc = Nothing /\ frac = Nothing /\ scan = Nothing
    /\ \E fmts \in SeqUpTo(FmtAnswers, MaxEntries),
          ivals \in SeqUpTo({a \in IvalAnswers : IsFrameIntervalType(a.type)}, MaxEntries),
          f1 \in {"iter_image_formats", "iter_frame_intervals"},
          f2 \in {"iter_image_formats", "iter_frame_intervals"} :
         pair = Some([dev |-> [fmts |-> fmts, ivals |-> ivals],
                      gens |-> <<NewGenerator(f1, 1), NewGenerator(f2, 1)>>])

\* whether generator g is between two of its requests
InProgress(g) == g.end = "running" /\ g.sent # <<>>

\* next() on one of the generators: one request, one turn of the loop body;
\* overlap notes that the request fell between two requests of the other
PairStep ==
    /\ pair # Nothing
    /\ \E i \in 1..2 :
         /\ pair[1].gens[i].end = "running"
         /\ LET g == pair[1].gens[i]
                sent == PairBuf(g.fn, SentIndex(pair[1].gens, i))
                t == PairTurn(g.fn, DeviceReply(pair[1].dev, g.fn, sent))
            IN pair' = Some([pair[1] EXCEPT
                               !.gens[i] = [g EXCEPT
                                   !.sent = Append(@, sent.index),
                                   !.yielded = @ \o t.yield,
                                   !.index = IF t.ctl = "next" THEN @ + 1 ELSE @,
                                   !.overlap = @ \/ InProgress(pair[1].gens[3 - i]),
                                   !.end = IF t.ctl = "break" THEN "returned"
                                           ELSE IF t.ctl = "raise" THEN "raised"
                                           ELSE "running"]])
    /\ UNCHANGED <<deviceVars, iocVars, cc, frac, scan>>

\* the function is called again on the same descriptor: a new generator
PairRestart ==
    /\ pair # Nothing
    /\ \E i \in 1..2 :
         /\ pair[1].gens[i].end # "running"
         /\ pair[1].gens[i].starts < MaxStarts
         /\ pair' = Some([pair[1] EXCEPT
                            !.gens[i] = NewGenerator(@.fn, @.starts + 1)])
    /\ UNCHANGED <<deviceVars, iocVars, cc, frac, scan>>

NextPair == PairStep \/ PairRestart

SpecPair == InitPair /\ [][NextPair]_vars

\* what a generator of fn yields, and how it ends, when it runs alone on the
\* device from index on
RECURSIVE RunAlone(_, _, _)
RunAlone(dev, fn, index) ==
    LET t == PairTurn(fn, DeviceReply(dev, fn, PairBuf(fn, index)))
    IN IF t.ctl = "break" THEN [yielded |-> <<>>, end |-> "returned"]
       ELSE IF t.ctl = "raise" THEN [yielded |-> <<>>, end |-> "raised"]
       ELSE [RunAlone(dev, fn, index + 1) EXCEPT !.yielded = t.yield \o @]

IsPrefix(s, t) == Len(s) <= Len(t) /\ SubSeq(t, 1, Len(s)) = s

\* C11: each of two generators whose requests interleave on one descriptor
\* yields the sequence it would yield alone (a prefix of it while it runs,
\* all of it and the same ending once it has ended), and the requests of
\* every generator, restarted ones included, carry the indices 0, 1, 2, ...
C11_InterleavedAsAlone ==
    pair # Nothing =>
        \A i \in 1..2 :
            LET g == pair[1].gens[i]
                alone == RunAlone(pair[1].dev, g.fn, 0)
            IN /\ IsPrefix(g.yielded, alone.yielded)
               /\ g.end # "running" => g.yielded = alone.yielded /\ g.end = alone.end
               /\ \A k \in 1..Len(g.sent) : g.sent[k] = k - 1

\* C11 witness: two generators of the same function returned after yielding
\* two values each, each having made a request between two requests of the
\* other, the second one a restarted generator
C11_Witness ==
    /\ pair # Nothing
    /\ pair[1].gens[1].fn = pair[1].gens[2].fn
    /\ \A i \in 1..2 : /\ pair[1].gens[i].end = "returned"
                       /\ Len(pair[1].gens[i].yielded) = 2
                       /\ pair[1].gens[i].overlap
    /\ pair[1].gens[2].starts = 2

(* ---------------------------------------------------------------------- *)
(* Properties of the frame-size and frame-interval generators inside        *)
(* from_file                                                                *)
(* ---------------------------------------------------------------------- *)

\* the requests of run r whose reply succeeded with a defined type tag
Decodable(r) ==
    {k \in 1..Len(r.reqs) : r.reqs[k].res.ok /\ r.reqs[k].res.buf.type \in {1, 2, 3}}

\* C15: in every frame-size and frame-interval run, each successful reply
\* with a defined type tag gave exactly one yielded value, in order: a
\* Discrete value for the discrete tag, a Stepwise value for the stepwise
\* tag and for the continuous tag; no such reply was skipped.
C15_EveryReplyDecoded ==
    \A i \in 1..Len(runs) :
        LET r == runs[i]
        IN r.fn \in {"iter_frame_sizes", "iter_frame_intervals"} =>
             /\ Len(r.yielded) = Cardinality(Decodable(r))
             /\ \A k \in 1..Len(r.yielded) :
                   /\ k \in Decodable(r)
                   /\ DecodedFrom(r.fn, r.yielded[k], r.reqs[k].res.buf)

\* the record a generator of run r builds for the request with this index:
\* the zeroed structure with the index and the key fields of r assigned
FreshRecord(r, index) ==
    IF r.fn = "iter_image_formats" THEN v4l2_fmtdesc(index, BufferType[r.key])
    ELSE IF r.fn = "iter_frame_sizes" THEN v4l2_frmsizeenum(index, r.key)
    ELSE v4l2_frmivalenum(index, r.key[1], r.key[2], r.key[3])

\* C16: in every generator run the k-th request carries index k - 1 on a
\* freshly zeroed record with the key fields set, so the indices are
\* 0, 1, 2, ... with none repeated and none skipped; every request but the
\* last succeeded, so nothing follows a failed request; a run that returned
\* made N + 1 requests for its N successes, the last one the failed one;
\* and a run is over before the next one starts.
C16_IndicesInOrderNoRetry ==
    \A i \in 1..Len(runs) :
        LET r == runs[i]
            n == Len(r.reqs)
        IN /\ \A k \in 1..n : r.reqs[k].buf = FreshRecord(r, k - 1)
           /\ \A k \in 1..(n - 1) : r.reqs[k].res.ok
           /\ r.end = "returned" => n >= 1 /\ ~r.reqs[n].res.ok
           /\ r.end = "raised" => n >= 1 /\ r.reqs[n].res.ok
           /\ r.end = "running" => i = Len(runs) /\ \A k \in 1..n : r.reqs[k].res.ok

\* C16 witness: a frame-size run over a list of two entries returned after
\* three requests
C16_Witness ==
    \E i \in 1..Len(runs) :
        /\ runs[i].fn = "iter_frame_sizes" /\ runs[i].end = "returned"
        /\ Len(runs[i].reqs) = 3 /\ Len(runs[i].yielded) = 2
        /\ IsExhaustion(runs[i].reqs[3].res)

\* the image_formats list of the running or returned from_file
CurrentImageFormats ==
    IF Returned THEN info[1].image_formats ELSE image_formats

\* the pixel formats the collected image formats reference
ReferencedPixelFormats ==
    {CurrentImageFormats[i].pixel_format : i \in 1..Len(CurrentImageFormats)}

\* C17: the frame-size runs of from_file have pairwise distinct pixel
\* formats, each one referenced by a collected ImageFormat (so every
\* frame-size request carries such a pixel format), and once the frame-size
\* step is over there is exactly one run for each referenced pixel format.
C17_OneSizeRunPerPixelFormat ==
    (Live \/ Returned) =>
        LET rs == RunsOf("iter_frame_sizes")
        IN /\ \A i \in 1..Len(rs) : \A j \in 1..Len(rs) : rs[i].key = rs[j].key => i = j
           /\ \A i \in 1..Len(rs) :
                 /\ rs[i].key \in ReferencedPixelFormats
                 /\ \A k \in 1..Len(rs[i].reqs) :
                       rs[i].reqs[k].buf.pixel_format \in ReferencedPixelFormats
           /\ (pc = "intervals" \/ Returned) =>
                 {rs[i].key : i \in 1..Len(rs)} = ReferencedPixelFormats

\* C17 witness: from_file returned a snapshot in which one pixel format is
\* referenced under two buffer types and another by a third image format,
\* after one frame-size run for each of the two
C17_Witness ==
    /\ Returned
    /\ Len(RunsOf("iter_frame_sizes")) = 2
    /\ \E i \in 1..Len(info[1].image_formats) : \E j \in 1..Len(info[1].image_formats) :
          /\ info[1].image_formats[i].pixel_format = info[1].image_formats[j].pixel_format
          /\ info[1].image_formats[i].type # info[1].image_formats[j].type

\* the frame_intervals list of the running or returned from_file
CurrentFrameIntervals ==
    IF Returned THEN info[1].frame_intervals ELSE frame_intervals

\* the key fields of a yielded frame size or frame interval
KeyOf(v) ==
    IF v.cls \in {"DiscreteFrameSize", "StepwiseFrameSize"} THEN v.pixel_format
    ELSE <<v.pixel_format, v.width, v.height>>

\* C18: in the running and in the returned from_file, every entry of
\* frame_sizes has the pixel format of an entry of image_formats, every entry
\* of frame_intervals has the (pixel format, width, height) of a discrete
\* entry of frame_sizes, and every value a frame-size or frame-interval
\* generator yielded has the key of its generator, which is the key every
\* request of the generator carried, whatever the reply records hold.
C18_ReferentiallyConsistent ==
    (Live \/ Returned) =>
      /\ \A i \in 1..Len(CurrentFrameSizes) :
            CurrentFrameSizes[i].pixel_format \in ReferencedPixelFormats
      /\ \A i \in 1..Len(CurrentFrameIntervals) :
            \E j \in 1..Len(CurrentFrameSizes) :
               /\ IsDiscreteSize(CurrentFrameSizes[j])
               /\ KeyOf(CurrentFrameIntervals[i]) =
                    <<CurrentFrameSizes[j].pixel_format, CurrentFrameSizes[j].width,
                      CurrentFrameSizes[j].height>>
      /\ \A i \in 1..Len(runs) :
            runs[i].fn \in {"iter_frame_sizes", "iter_frame_intervals"} =>
               /\ \A k \in 1..Len(runs[i].yielded) : KeyOf(runs[i].yielded[k]) = runs[i].key
               /\ \A k \in 1..Len(runs[i].reqs) :
                     runs[i].reqs[k].buf = FreshRecord(runs[i], k - 1)

\* C18 witness: a snapshot was returned with a frame interval decoded from a
\* reply whose frame size differs from the one the request carried
C18_Witness ==
    /\ Returned
    /\ Len(info[1].frame_intervals) >= 1
    /\ \E i \in 1..Len(runs) : \E k \in 1..Len(runs[i].reqs) :
          /\ runs[i].fn = "iter_frame_intervals"
          /\ runs[i].reqs[k].res.ok
          /\ runs[i].reqs[k].res.buf.width # runs[i].reqs[k].buf.width

(* ---------------------------------------------------------------------- *)
(* Properties of Device.__enter__ / Device.__exit__                         *)
(* ---------------------------------------------------------------------- *)

\* C19: every step in which an __enter__ returns normally (at the end of
\* from_file, or at once because self.fd is set) returns the Device itself
\* and leaves it with an open descriptor and a populated info.
C19_EnterReturnsOpenDevice ==
    [][(Return \/ EnterAgain) => (ret' = "self" /\ fd' = "open" /\ info' # Nothing)]_vars

====
